---- MODULE Spec2Model ----
(***************************************************************************)
(* Model of heximeter (src/src/main.cpp): cube hex coordinates, the sparse *)
(* HexMap with its three-cell rotation state machine, the triangular       *)
(* Cursor and the frame loop of main().                                    *)
(*                                                                         *)
(* Numbers of type float are modelled exactly as IEEE-754 single precision *)
(* values on the lattice of multiples of 2^-29: a float is the integer     *)
(* number of such units, One is 1.0f, and an addition rounds its exact     *)
(* result to 24 significant bits, ties to even, as the hardware does.      *)
(***************************************************************************)
EXTENDS Integers, Sequences, FiniteSets, TLC

(***************************************************************************)
(* Bounds of the model.                                                    *)
(***************************************************************************)
\* radius handed to generateHexMap (main() passes 10); 5 is the smallest
\* radius that holds the cursor's starting triangle
MapRadius == 5
\* the cursor's top hex stays within this hex distance of its start
CursorRange == 5
\* as CursorRange, for the frame loop, which is kept on the rim of the grid
MainRange == 1
\* rotations the frame loop starts: none once this many have committed
MaxRotations == 1
\* the free functions are called on hexes whose q, r and s are within this
\* of 0
HexRange == 2

(***************************************************************************)
(* float (single precision) arithmetic                                     *)
(***************************************************************************)
One == 2 ^ 29

Pow2(n) == 2 ^ n

Abs(x) == IF x < 0 THEN -x ELSE x

\* number of low bits a magnitude m < 2^31 loses when it is stored in a
\* 24 bit significand
LostBits(m) ==
    IF m < Pow2(24) THEN 0
    ELSE IF m < Pow2(25) THEN 1
    ELSE IF m < Pow2(26) THEN 2
    ELSE IF m < Pow2(27) THEN 3
    ELSE IF m < Pow2(28) THEN 4
    ELSE IF m < Pow2(29) THEN 5
    ELSE IF m < Pow2(30) THEN 6
    ELSE 7

\* round to nearest float, ties to even
RoundF(x) ==
    LET m    == Abs(x)
        sh   == LostBits(m)
        q    == m \div Pow2(sh)
        rem  == m % Pow2(sh)
        half == Pow2(sh) \div 2
        up   == (sh > 0) /\ (rem > half \/ (rem = half /\ q % 2 = 1))
        r    == (IF up THEN q + 1 ELSE q) * Pow2(sh)
    IN  IF x < 0 THEN -r ELSE r

\* a + b in float
FAdd(a, b) == RoundF(a + b)

\* dt * 4.0f: a multiplication by a power of two is exact
FMul4(dt) == dt * 4

\* C++ integer remainder (truncating division)
CppMod(a, b) == IF a >= 0 THEN a % b ELSE -((-a) % b)

(***************************************************************************)
(* class Hex and its algebra                                               *)
(***************************************************************************)
Hex(q, r, s) == [q |-> q, r |-> r, s |-> s]

\* Hex::operator== compares q and r only
HexEq(a, b) == a.q = b.q /\ a.r = b.r

hexAdd(a, b) == Hex(a.q + b.q, a.r + b.r, a.s + b.s)

hexSubtract(a, b) == Hex(a.q - b.q, a.r - b.r, a.s - b.s)

\* hexLength without its division by 2
hexLengthNoHalf(hex) == Abs(hex.q) + Abs(hex.r) + Abs(hex.s)

hexLength(hex) == (Abs(hex.q) + Abs(hex.r) + Abs(hex.s)) \div 2

hexDistance(a, b) == hexLength(hexSubtract(a, b))

\* enum class HexDirection, by index
East == 0
SouthEast == 1
SouthWest == 2
West == 3
NorthWest == 4
NorthEast == 5

\* hex_directions with the entries of West and NorthWest exchanged
hex_directionsMisordered ==
    << Hex(1, 0, -1), Hex(1, -1, 0), Hex(0, -1, 1),
       Hex(-1, 1, 0), Hex(-1, 0, 1), Hex(0, 1, -1) >>

hex_directions ==
    << Hex(1, 0, -1), Hex(1, -1, 0), Hex(0, -1, 1),
       Hex(-1, 0, 1), Hex(-1, 1, 0), Hex(0, 1, -1) >>

hexDirection(direction) == hex_directions[direction + 1]

hexNeighbour(hex, direction) == hexAdd(hex, hexDirection(direction))

(***************************************************************************)
(* class Cell                                                              *)
(***************************************************************************)
\* std::optional: the empty optional, an optional holding x, and its
\* has_value() and operator*
Nullopt == << >>

Some(x) == << x >>

HasValue(o) == o # Nullopt

Value(o) == o[1]

availableColors == << "ORANGE", "MAROON", "LIME" >>

\* GetRandomValue(0, 2) of the windowing library, for the cell built for
\* hex h: a family of pseudo-random streams indexed by the seed
GetRandomValue(sd, h) == ((sd + 1) * h.q + 2 * h.r + sd) % 3

\* Cell::Cell(): a random colour, no target, rotationProgress left
\* uninitialised (u is the indeterminate value it holds)
NewCell(sd, u, h) ==
    [ color |-> availableColors[GetRandomValue(sd, h) + 1],
      rotatingTo |-> Nullopt,
      rotationProgress |-> u ]

\* startRotation that leaves rotationProgress as it was
CellStartRotationKeepProgress(cell, hex) ==
    [cell EXCEPT !.rotatingTo = Some(hex)]

CellStartRotation(cell, hex) ==
    [cell EXCEPT !.rotatingTo = Some(hex), !.rotationProgress = 0]

\* Cell::stepRotation without the clamp to 1.0
CellStepRotationNoClamp(cell, dt) ==
    IF HasValue(cell.rotatingTo)
    THEN LET newRotation == FAdd(cell.rotationProgress, FMul4(dt))
         IN  [cell EXCEPT !.rotationProgress = newRotation]
    ELSE cell

\* Cell::stepRotation that stores newRotation only when it is clamped
CellStepRotationNoStore(cell, dt) ==
    IF HasValue(cell.rotatingTo)
    THEN LET newRotation == FAdd(cell.rotationProgress, FMul4(dt))
         IN  [cell EXCEPT !.rotationProgress =
                 IF newRotation > One THEN One ELSE @]
    ELSE cell

CellStepRotation(cell, dt) ==
    IF HasValue(cell.rotatingTo)
    THEN LET newRotation == FAdd(cell.rotationProgress, FMul4(dt))
         IN  [cell EXCEPT !.rotationProgress =
                 IF newRotation > One THEN One ELSE newRotation]
    ELSE cell

\* rotationDone with > where the code has >=
rotationDoneStrict(cell) ==
    ~HasValue(cell.rotatingTo) \/ cell.rotationProgress > One

rotationDone(cell) ==
    ~HasValue(cell.rotatingTo) \/ cell.rotationProgress >= One

\* resetRotation that leaves the target in place
resetRotationKeepTarget(cell) ==
    [cell EXCEPT !.rotationProgress = -One]

resetRotation(cell) ==
    [cell EXCEPT !.rotationProgress = -One, !.rotatingTo = Nullopt]

(***************************************************************************)
(* generateHexMap and class HexMap.  A HexMap value is the record of the   *)
(* object's fields: cells (the unordered_map, a function on its keys) and  *)
(* rotation (the optional descriptor).  Each operation returns the object  *)
(* after the call, with threw = TRUE when cells.at raised                  *)
(* std::out_of_range on the way.                                           *)
(***************************************************************************)
Max(a, b) == IF a > b THEN a ELSE b

Min(a, b) == IF a < b THEN a ELSE b

\* the loop of generateHexMap with r running from -size to size in every
\* column
generatedKeysUnclamped(size) ==
    UNION { { Hex(q, r, -q - r) : r \in -size .. size } : q \in -size .. size }

\* the keys generateHexMap(size) inserts
generatedKeys(size) ==
    UNION { { Hex(q, r, -q - r) :
                r \in Max(-size, -q - size) .. Min(size, -q + size) } :
            q \in -size .. size }

generateHexMap(size, sd, u) ==
    [ cells    |-> [h \in generatedKeys(size) |-> NewCell(sd, u, h)],
      rotation |-> Nullopt ]

getRotation(hm) == hm.rotation

hasRotation(hm) == HasValue(hm.rotation)

\* unordered_map::operator[]: the map after the lookup, which value-inserts
\* a default Cell for a missing key
Subscript(cs, h, sd, u) ==
    IF h \in DOMAIN cs
    THEN cs
    ELSE [k \in DOMAIN cs \cup {h} |->
             IF k = h THEN NewCell(sd, u, h) ELSE cs[k]]

\* an assignment where the code swaps
SwapCellsCopy(cs, a, b) == [cs EXCEPT ![a] = cs[b]]

\* std::swap of the cells stored under a and b
SwapCells(cs, a, b) == [cs EXCEPT ![a] = cs[b], ![b] = cs[a]]

\* the lookup of the target without the swap
SwapWithTargetNoSwap(cs, a, sd, u) ==
    LET target == Value(cs[a].rotatingTo)
    IN  Subscript(cs, target, sd, u)

\* std::swap(cell, cells[*cell.rotatingTo]) for the cell stored under a
\* (a cell that reaches the commit always has a target: TargetsSet below)
SwapWithTarget(cs, a, sd, u) ==
    LET target == Value(cs[a].rotatingTo)
    IN  SwapCells(Subscript(cs, target, sd, u), a, target)

\* startRotation whose targets lie MapRadius + 1 columns east of the
\* descriptor's coordinates
startRotationFarTargets(hm, hexes) ==
    LET rot == hexes
        far(h) == hexAdd(h, Hex(MapRadius + 1, 0, -(MapRadius + 1)))
    IN  IF \A i \in 1..3 : rot[i] \in DOMAIN hm.cells
        THEN LET cs1 == [hm.cells EXCEPT ![rot[2]] = CellStartRotation(@, far(rot[1]))]
                 cs2 == [cs1 EXCEPT ![rot[3]] = CellStartRotation(@, far(rot[2]))]
                 cs3 == [cs2 EXCEPT ![rot[1]] = CellStartRotation(@, far(rot[3]))]
             IN  [hm |-> [cells |-> cs3, rotation |-> Some(rot)], threw |-> FALSE]
        ELSE [hm |-> [cells |-> hm.cells, rotation |-> Some(rot)], threw |-> TRUE]

\* startRotation that looks its cells up with operator[] instead of at()
startRotationInserting(hm, hexes) ==
    LET rot == hexes
        in0 == Subscript(hm.cells, rot[1], 0, 0)
        in1 == Subscript(in0, rot[2], 0, 0)
        in2 == Subscript(in1, rot[3], 0, 0)
        cs1 == [in2 EXCEPT ![rot[2]] = CellStartRotation(@, rot[1])]
        cs2 == [cs1 EXCEPT ![rot[3]] = CellStartRotation(@, rot[2])]
        cs3 == [cs2 EXCEPT ![rot[1]] = CellStartRotation(@, rot[3])]
    IN  [hm |-> [cells |-> cs3, rotation |-> Some(rot)], threw |-> FALSE]

\* HexMap::startRotation
startRotation(hm, hexes) ==
    LET rot == hexes
    IN  IF \A i \in 1..3 : rot[i] \in DOMAIN hm.cells
        THEN LET cs1 == [hm.cells EXCEPT ![rot[2]] = CellStartRotation(@, rot[1])]
                 cs2 == [cs1 EXCEPT ![rot[3]] = CellStartRotation(@, rot[2])]
                 cs3 == [cs2 EXCEPT ![rot[1]] = CellStartRotation(@, rot[3])]
             IN  [hm |-> [cells |-> cs3, rotation |-> Some(rot)], threw |-> FALSE]
        ELSE [hm |-> [cells |-> hm.cells, rotation |-> Some(rot)], threw |-> TRUE]

\* commitRotation without its second swap
commitRotationSkipSwap(cs, rot, sd, u) ==
    LET s1 == SwapWithTarget(cs, rot[1], sd, u)
        s3 == SwapWithTarget(s1, rot[3], sd, u)
        r1 == [s3 EXCEPT ![rot[1]] = resetRotation(@)]
        r2 == [r1 EXCEPT ![rot[2]] = resetRotation(@)]
        r3 == [r2 EXCEPT ![rot[3]] = resetRotation(@)]
    IN  [cells |-> r3, rotation |-> Nullopt]

\* the commit of HexMap::stepRotation: three swaps, three resets, and the
\* descriptor is dropped
commitRotation(cs, rot, sd, u) ==
    LET s1 == SwapWithTarget(cs, rot[1], sd, u)
        s2 == SwapWithTarget(s1, rot[2], sd, u)
        s3 == SwapWithTarget(s2, rot[3], sd, u)
        r1 == [s3 EXCEPT ![rot[1]] = resetRotation(@)]
        r2 == [r1 EXCEPT ![rot[2]] = resetRotation(@)]
        r3 == [r2 EXCEPT ![rot[3]] = resetRotation(@)]
    IN  [cells |-> r3, rotation |-> Nullopt]

\* stepRotation that resets every cell when there is no rotation
stepRotationResetsIdle(hm, dt, sd, u) ==
    IF HasValue(hm.rotation)
    THEN LET rot == Value(hm.rotation)
             c1 == [hm.cells EXCEPT ![rot[1]] = CellStepRotation(@, dt)]
             c2 == [c1 EXCEPT ![rot[2]] = CellStepRotation(@, dt)]
             c3 == [c2 EXCEPT ![rot[3]] = CellStepRotation(@, dt)]
         IN  IF \A i \in 1..3 : rotationDone(c3[rot[i]])
             THEN [hm |-> commitRotation(c3, rot, sd, u), threw |-> FALSE]
             ELSE [hm |-> [cells |-> c3, rotation |-> hm.rotation], threw |-> FALSE]
    ELSE [hm |-> [cells |-> [k \in DOMAIN hm.cells |-> resetRotation(hm.cells[k])],
                  rotation |-> hm.rotation],
          threw |-> FALSE]

\* stepRotation that steps the first two cells only
stepRotationSkipsCell(hm, dt, sd, u) ==
    IF HasValue(hm.rotation)
    THEN LET rot == Value(hm.rotation)
         IN  IF \A i \in 1..3 : rot[i] \in DOMAIN hm.cells
             THEN LET c1 == [hm.cells EXCEPT ![rot[1]] = CellStepRotation(@, dt)]
                      c3 == [c1 EXCEPT ![rot[2]] = CellStepRotation(@, dt)]
                  IN  IF \A i \in 1..3 : rotationDone(c3[rot[i]])
                      THEN [hm |-> commitRotation(c3, rot, sd, u), threw |-> FALSE]
                      ELSE [hm |-> [cells |-> c3, rotation |-> hm.rotation], threw |-> FALSE]
             ELSE [hm |-> hm, threw |-> TRUE]
    ELSE [hm |-> hm, threw |-> FALSE]

\* HexMap::stepRotation
stepRotation(hm, dt, sd, u) ==
    IF HasValue(hm.rotation)
    THEN LET rot == Value(hm.rotation)
         IN  IF \A i \in 1..3 : rot[i] \in DOMAIN hm.cells
             THEN LET c1 == [hm.cells EXCEPT ![rot[1]] = CellStepRotation(@, dt)]
                      c2 == [c1 EXCEPT ![rot[2]] = CellStepRotation(@, dt)]
                      c3 == [c2 EXCEPT ![rot[3]] = CellStepRotation(@, dt)]
                  IN  IF \A i \in 1..3 : rotationDone(c3[rot[i]])
                      THEN [hm |-> commitRotation(c3, rot, sd, u), threw |-> FALSE]
                      ELSE [hm |-> [cells |-> c3, rotation |-> hm.rotation], threw |-> FALSE]
             ELSE [hm |-> hm, threw |-> TRUE]
    ELSE [hm |-> hm, threw |-> FALSE]

(***************************************************************************)
(* class Cursor: the array hexes                                           *)
(***************************************************************************)
Cursor(topHex) ==
    << topHex, hexNeighbour(topHex, NorthWest), hexNeighbour(topHex, NorthEast) >>

\* move that leaves the third hex behind
moveTwoOnly(hexes, hexDir) ==
    << hexNeighbour(hexes[1], hexDir),
       hexNeighbour(hexes[2], hexDir),
       hexes[3] >>

move(hexes, hexDir) ==
    << hexNeighbour(hexes[1], hexDir),
       hexNeighbour(hexes[2], hexDir),
       hexNeighbour(hexes[3], hexDir) >>

\* moveUp that takes a row for odd when r % 2 is 1, which it never is for
\* a negative r
moveUpPositiveOdd(hexes) ==
    IF CppMod(hexes[1].r, 2) = 1
    THEN move(hexes, SouthWest)
    ELSE move(hexes, SouthEast)

moveUp(hexes) ==
    IF CppMod(hexes[1].r, 2) = 0
    THEN move(hexes, SouthEast)
    ELSE move(hexes, SouthWest)

\* moveDown with the directions of its two branches exchanged
moveDownSwapped(hexes) ==
    IF CppMod(hexes[1].r, 2) = 0
    THEN move(hexes, NorthWest)
    ELSE move(hexes, NorthEast)

moveDown(hexes) ==
    IF CppMod(hexes[1].r, 2) = 0
    THEN move(hexes, NorthEast)
    ELSE move(hexes, NorthWest)

moveLeft(hexes) == move(hexes, West)

moveRight(hexes) == move(hexes, East)

\* Cursor(Hex(2, 2, -4)) of main()
StartTop == Hex(2, 2, -4)

(***************************************************************************)
(* State                                                                   *)
(***************************************************************************)
VARIABLES
    hexMap,      \* the HexMap object: [cells, rotation]
    cursor,      \* the Cursor object's array hexes
    fault,       \* cells.at threw std::out_of_range, which nothing catches
    seed,        \* seed of the random colour stream
    uninit,      \* the indeterminate value Cell() leaves in rotationProgress
    lastOp,      \* history: the operation (or key branch) that ran last
    prevOp,      \* history: the direct Cursor operation before the last
    prevCursor,  \* history: hexes before the last direct Cursor operation
    hist,        \* history of the rotation a direct call started last
    completed,   \* history: rotations the frame loop has committed
    timePassed,  \* history: GetFrameTime() was positive in the last frame
    call         \* the last call of a free function: its name, arguments, result

vars == << hexMap, cursor, fault, seed, uninit, lastOp, prevOp, prevCursor,
           hist, completed, timePassed, call >>

\* frame times: 0, 1/48 s (as a float), 1/8 s and 0.3 s (as a float), in
\* units of 2^-29 s
Dts == { 0, 11184811, 67108864, 161061280 }

\* frame times of the game loop: 0, 1/8 s and 0.3 s (as a float)
FrameDts == { 0, 67108864, 161061280 }

\* seeds of the random colour stream
Seeds == { 0, 1 }

\* 0.25 s
Quarter == One \div 4

\* values an uninitialised float may hold: 0.0f, 1.5f
UninitValues == { 0, One + One \div 2 }

Keys == DOMAIN hexMap.cells

Idle == ~hasRotation(hexMap)

Rotating == hasRotation(hexMap)

Distinct3(t) == t[1] # t[2] /\ t[2] # t[3] /\ t[1] # t[3]

(***************************************************************************)
(* History of the rotation started last: the descriptor, the colours its   *)
(* three slots held, the exact sum of the dt of the stepRotation calls it  *)
(* has received, whether every float addition so far was exact, the        *)
(* common dt of its calls with dt > 0 (0: none yet, -1: they differ) and,  *)
(* while they have a common dt, their number.  It is kept for the direct   *)
(* calls of startRotation and stepRotation.                                *)
(***************************************************************************)
NoHist ==
    [ phase |-> "none", hexes |-> << >>, snap |-> << >>, cumDt |-> 0,
      exact |-> TRUE, calls |-> 0, uniform |-> 0 ]

HistStart(hm, hexes) ==
    [ phase |-> "rotating", hexes |-> hexes,
      snap |-> [i \in 1..3 |-> hm.cells[hexes[i]].color],
      cumDt |-> 0, exact |-> TRUE, calls |-> 0, uniform |-> 0 ]

\* the history after stepRotation(dt) took the map from hm to hm2
HistStep(h, hm, dt, hm2) ==
    IF ~hasRotation(hm)
    THEN h
    ELSE LET p   == hm.cells[Value(hm.rotation)[1]].rotationProgress
             uni == IF dt = 0 THEN h.uniform
                    ELSE IF h.uniform = 0 THEN dt
                    ELSE IF h.uniform = dt THEN dt ELSE -1
         IN  [ h EXCEPT
                 !.phase = IF ~hasRotation(hm2) THEN "committed" ELSE "rotating",
                 !.cumDt = @ + dt,
                 !.exact = @ /\ (FAdd(p, FMul4(dt)) = p + FMul4(dt)),
                 !.calls = IF uni = -1 THEN 0
                           ELSE IF dt > 0 THEN @ + 1 ELSE @,
                 !.uniform = uni ]

\* no free function has been called yet
NoCall == [ fn |-> "none", args |-> << >>, result |-> << >> ]

Init ==
    /\ seed \in Seeds
    /\ uninit \in UninitValues
    /\ hexMap = generateHexMap(MapRadius, seed, uninit)
    /\ cursor = Cursor(StartTop)
    /\ fault = FALSE
    /\ lastOp = "init"
    /\ prevOp = "init"
    /\ prevCursor = cursor
    /\ hist = NoHist
    /\ completed = 0
    /\ timePassed = FALSE
    /\ call = NoCall

(***************************************************************************)
(* The operations of HexMap, called directly                               *)
(***************************************************************************)
Origin == Hex(0, 0, 0)

\* the cells a direct caller selects from (in any order, repeats included)
Selectable ==
    { Origin, hexNeighbour(Origin, East), hexNeighbour(Origin, SouthEast) }

\* startRotation(hexes), called as its contract asks: while Idle, on
\* coordinates present in the grid
StartRotation ==
    \E h0 \in Selectable, h1 \in Selectable, h2 \in Selectable :
        LET hexes == << h0, h1, h2 >>
            res   == startRotation(hexMap, hexes)
        IN  /\ ~fault
            /\ ~hasRotation(hexMap)
            /\ \A i \in 1..3 : hexes[i] \in Keys
            /\ hexMap' = res.hm
            /\ fault' = res.threw
            /\ hist' = HistStart(hexMap, hexes)
            /\ lastOp' = "startRotation"
            /\ UNCHANGED << cursor, seed, uninit, prevOp, prevCursor, completed,
                           timePassed, call >>

StepRotation ==
    \E dt \in Dts :
        LET res == stepRotation(hexMap, dt, seed, uninit)
        IN  /\ ~fault
            /\ hexMap' = res.hm
            /\ fault' = res.threw
            /\ hist' = HistStep(hist, hexMap, dt, res.hm)
            /\ lastOp' = "stepRotation"
            /\ UNCHANGED << cursor, seed, uninit, prevOp, prevCursor, completed,
                           timePassed, call >>

Next == StartRotation \/ StepRotation

Spec == Init /\ [][Next]_vars

(***************************************************************************)
(* The operations of Cursor, called directly                               *)
(***************************************************************************)
\* the cursor is kept within range hex steps of its start
InRange(hexes, range) == hexDistance(hexes[1], StartTop) <= range

CursorOp(name, hexes) ==
    /\ InRange(hexes, CursorRange)
    /\ cursor' = hexes
    /\ prevCursor' = cursor
    /\ prevOp' = lastOp
    /\ lastOp' = name
    /\ UNCHANGED << hexMap, fault, seed, uninit, hist, completed, timePassed,
                    call >>

MoveUp ==
    /\ ~fault
    /\ CursorOp("moveUp", moveUp(cursor))

MoveDown ==
    /\ ~fault
    /\ CursorOp("moveDown", moveDown(cursor))

MoveLeft ==
    /\ ~fault
    /\ CursorOp("moveLeft", moveLeft(cursor))

MoveRight ==
    /\ ~fault
    /\ CursorOp("moveRight", moveRight(cursor))

NextCursor == MoveUp \/ MoveDown \/ MoveLeft \/ MoveRight

SpecCursor == Init /\ [][NextCursor]_vars

(***************************************************************************)
(* main(): one iteration of the game loop.  pressed is the set of keys     *)
(* IsKeyPressed reports in the frame, dt is GetFrameTime().                *)
(***************************************************************************)
KeyNames == { "KEY_UP", "KEY_DOWN", "KEY_LEFT", "KEY_RIGHT", "KEY_SPACE" }

\* the key sets of a frame: no key, one key, or every key at once
PressedSets == { {} } \cup { {k} : k \in KeyNames } \cup { KeyNames }

\* the chain without its !hexMap.hasRotation() test
KeyBranchNoGuard(pressed, hm) ==
    IF "KEY_UP" \in pressed THEN "moveUp"
    ELSE IF "KEY_DOWN" \in pressed THEN "moveDown"
    ELSE IF "KEY_LEFT" \in pressed THEN "moveLeft"
    ELSE IF "KEY_RIGHT" \in pressed THEN "moveRight"
    ELSE IF "KEY_SPACE" \in pressed THEN "startRotation"
    ELSE "none"

\* the branch of the if / else-if chain the frame takes
KeyBranch(pressed, hm) ==
    IF "KEY_UP" \in pressed THEN "moveUp"
    ELSE IF "KEY_DOWN" \in pressed THEN "moveDown"
    ELSE IF "KEY_LEFT" \in pressed THEN "moveLeft"
    ELSE IF "KEY_RIGHT" \in pressed THEN "moveRight"
    ELSE IF "KEY_SPACE" \in pressed /\ ~hasRotation(hm) THEN "startRotation"
    ELSE "none"

\* the branch of startRotation moving the cursor as well
CursorAfterStartMoves(branch, hexes) ==
    IF branch = "moveUp" THEN moveUp(hexes)
    ELSE IF branch = "moveDown" THEN moveDown(hexes)
    ELSE IF branch = "moveLeft" THEN moveLeft(hexes)
    ELSE IF branch = "moveRight" THEN moveRight(hexes)
    ELSE IF branch = "startRotation" THEN moveRight(hexes)
    ELSE hexes

\* the cursor after the branch
CursorAfter(branch, hexes) ==
    IF branch = "moveUp" THEN moveUp(hexes)
    ELSE IF branch = "moveDown" THEN moveDown(hexes)
    ELSE IF branch = "moveLeft" THEN moveLeft(hexes)
    ELSE IF branch = "moveRight" THEN moveRight(hexes)
    ELSE hexes

\* the map after the branch
MapAfter(branch, hm, hexes) ==
    IF branch = "startRotation"
    THEN startRotation(hm, hexes)
    ELSE [hm |-> hm, threw |-> FALSE]

\* the frame loop is explored on the rim of the grid, where the cursor can
\* leave it: the top hex stays within MainRange steps of its start and no
\* nearer the centre than its start
InRangeMain(hexes) ==
    /\ InRange(hexes, MainRange)
    /\ hexLength(hexes[1]) >= hexLength(StartTop)

FrameStep(pressed, dt) ==
        LET branch  == KeyBranch(pressed, hexMap)
            hexes   == CursorAfter(branch, cursor)
            keyed   == MapAfter(branch, hexMap, cursor)
            stepped == stepRotation(keyed.hm, dt, seed, uninit)
        IN  /\ ~fault
            /\ InRangeMain(hexes)
            /\ branch = "startRotation" => completed < MaxRotations
            /\ cursor' = hexes
            /\ lastOp' = IF branch = "startRotation" THEN branch ELSE "frame"
            /\ timePassed' = (dt > 0)
            /\ IF keyed.threw
               THEN /\ hexMap' = keyed.hm
                    /\ fault' = TRUE
                    /\ completed' = completed
               ELSE /\ hexMap' = stepped.hm
                    /\ fault' = stepped.threw
                    /\ completed' =
                           IF hasRotation(keyed.hm) /\ ~hasRotation(stepped.hm)
                           THEN completed + 1
                           ELSE completed
            /\ UNCHANGED << seed, uninit, prevOp, prevCursor, hist, call >>

Frame == \E pressed \in PressedSets, dt \in FrameDts : FrameStep(pressed, dt)

NextMain == Frame

\* main() up to its loop, with the first seed of the colour stream
InitMain == Init /\ seed = 0

SpecMain == InitMain /\ [][NextMain]_vars

\* the game loop never stops taking frames
FairMain == SpecMain /\ WF_vars(Frame)

\* moveUp and moveDown alone
NextVertical == MoveUp \/ MoveDown

SpecVertical == Init /\ [][NextVertical]_vars

(***************************************************************************)
(* The free functions hexNeighbour, hexDistance and generateHexMap, called *)
(* directly.  call records the call made last and what it returned.        *)
(***************************************************************************)
\* the hexes a caller can construct (q + r + s = 0 is asserted by Hex::Hex)
\* with q, r and s within n of 0
HexesWithin(n) ==
    { Hex(p[1], p[2], -p[1] - p[2]) :
          p \in { x \in (-n .. n) \X (-n .. n) : Abs(x[1] + x[2]) <= n } }

Directions == East .. NorthEast

\* hexNeighbour(hex, direction), on a hex of the range or on the hex that
\* hexNeighbour has just returned for a hex of the range
CallNeighbour ==
    \E hex \in HexesWithin(HexRange) \cup
                  (IF /\ call.fn = "hexNeighbour"
                      /\ call.args[1] \in HexesWithin(HexRange)
                   THEN { call.result }
                   ELSE {}),
       direction \in Directions :
        /\ call' = [ fn |-> "hexNeighbour", args |-> << hex, direction >>,
                     result |-> hexNeighbour(hex, direction) ]
        /\ UNCHANGED << hexMap, cursor, fault, seed, uninit, lastOp, prevOp,
                        prevCursor, hist, completed, timePassed >>

\* hexDistance(a, b)
CallDistance ==
    \E a \in HexesWithin(HexRange), b \in HexesWithin(HexRange) :
        /\ call' = [ fn |-> "hexDistance", args |-> << a, b >>,
                     result |-> hexDistance(a, b) ]
        /\ UNCHANGED << hexMap, cursor, fault, seed, uninit, lastOp, prevOp,
                        prevCursor, hist, completed, timePassed >>

\* generateHexMap(size), for the sizes up to the one of the grid
CallGenerate ==
    \E size \in 0 .. MapRadius :
        /\ call' = [ fn |-> "generateHexMap", args |-> << size >>,
                     result |-> generateHexMap(size, seed, uninit) ]
        /\ UNCHANGED << hexMap, cursor, fault, seed, uninit, lastOp, prevOp,
                        prevCursor, hist, completed, timePassed >>

NextHex == CallNeighbour \/ CallDistance \/ CallGenerate

\* HexMap::HexMap(): no cell, no rotation
EmptyHexMap == [ cells |-> [h \in {} |-> h], rotation |-> Nullopt ]

\* the free functions are called on their own, with no grid generated yet
InitHex ==
    /\ seed \in Seeds
    /\ uninit \in UninitValues
    /\ hexMap = EmptyHexMap
    /\ cursor = Cursor(StartTop)
    /\ fault = FALSE
    /\ lastOp = "init"
    /\ prevOp = "init"
    /\ prevCursor = cursor
    /\ hist = NoHist
    /\ completed = 0
    /\ timePassed = FALSE
    /\ call = NoCall

SpecHex == InitHex /\ [][NextHex]_vars

(***************************************************************************)
(* Properties                                                              *)
(***************************************************************************)
ColorAt(h) == hexMap.cells[h].color

\* the least n with n * b >= a
CeilDiv(a, b) == (a + b - 1) \div b

\* the rotation started last was over three pairwise distinct coordinates
StartedDistinct == hist.phase # "none" /\ Distinct3(hist.hexes)

\* C1, as the specification states it: once the stepRotation calls after
\* startRotation([h0,h1,h2]) add up to 0.25 s the grid is Idle and holds
\* h0's former colour at h1, h1's at h2 and h2's at h0.
C1_AsStated ==
    (StartedDistinct /\ hist.cumDt >= Quarter) =>
        /\ Idle
        /\ ColorAt(hist.hexes[2]) = hist.snap[1]
        /\ ColorAt(hist.hexes[3]) = hist.snap[2]
        /\ ColorAt(hist.hexes[1]) = hist.snap[3]

\* C1, amended: when the rotation over pairwise distinct h0,h1,h2 has
\* committed the grid is Idle and holds h0's former colour at h2, h1's at
\* h0 and h2's at h1; it has committed once the calls add up to 0.25 s,
\* provided every float addition of the progress was exact.
C1_ThreeCycle ==
    /\ (StartedDistinct /\ hist.phase = "committed") =>
          /\ Idle
          /\ ColorAt(hist.hexes[3]) = hist.snap[1]
          /\ ColorAt(hist.hexes[1]) = hist.snap[2]
          /\ ColorAt(hist.hexes[2]) = hist.snap[3]
    /\ (StartedDistinct /\ hist.exact /\ hist.cumDt >= Quarter) =>
          hist.phase = "committed"

\* a rotation of three different colours has committed after several calls
C1_Witness ==
    /\ StartedDistinct
    /\ hist.phase = "committed"
    /\ hist.calls >= 2
    /\ Cardinality({ hist.snap[i] : i \in 1..3 }) = 3

\* C2, as the specification states it (for pairwise distinct coordinates):
\* the rotation is uncommitted exactly while the dt of its calls add up to
\* less than 0.25 s, and calls of a constant dt > 0 commit in the
\* ceil(0.25/dt)-th.
C2_AsStated ==
    StartedDistinct =>
        /\ hist.phase = "rotating" => hist.cumDt < Quarter
        /\ hist.phase = "committed" => hist.cumDt >= Quarter
        /\ (hist.phase = "committed" /\ hist.uniform > 0) =>
              hist.calls = CeilDiv(Quarter, hist.uniform)

\* C2, amended: the rotation is uncommitted exactly while the progress of
\* its cells, the float sum of the 4*dt, is below 1.0; as long as every
\* float addition was exact that is while the dt add up to less than
\* 0.25 s, and calls of a constant dt > 0 then commit in the
\* ceil(0.25/dt)-th, a single call when dt >= 0.25.
C2_CommitTiming ==
    StartedDistinct =>
        /\ hist.phase = "rotating" =>
              /\ Rotating
              /\ \A i \in 1..3 :
                    hexMap.cells[hist.hexes[i]].rotationProgress < One
        /\ hist.phase = "committed" => Idle
        /\ (hist.phase = "rotating" /\ hist.exact) => hist.cumDt < Quarter
        /\ (hist.phase = "committed" /\ hist.exact) => hist.cumDt >= Quarter
        /\ (hist.phase = "committed" /\ hist.exact /\ hist.uniform > 0) =>
              hist.calls = CeilDiv(Quarter, hist.uniform)
        /\ (hist.uniform >= Quarter) =>
              (hist.phase = "committed" /\ hist.exact /\ hist.calls = 1)

\* exact calls of 1/8 s have committed a rotation in the second call
C2_Witness ==
    /\ StartedDistinct
    /\ hist.phase = "committed"
    /\ hist.exact
    /\ hist.calls = 2
    /\ hist.uniform > 0

\* the colours the slots of the set sel hold in the cells cs, as a count per
\* colour
ColorCount(cs, sel, c) == Cardinality({ k \in sel : cs[k].color = c })

AllColors == { availableColors[i] : i \in 1..3 }

\* the step is a commit: the descriptor is dropped
CommitStep == hasRotation(hexMap) /\ ~hasRotation(hexMap')

\* C3: a rotation permutes colours: no colour changes in a step that is not
\* a commit, and a commit keeps the colour of every slot outside the three
\* selected ones and the number of slots of each colour among the three.
C3_PurePermutation ==
    [][ /\ DOMAIN hexMap'.cells = DOMAIN hexMap.cells
        /\ ~CommitStep =>
              \A k \in DOMAIN hexMap.cells :
                  hexMap'.cells[k].color = hexMap.cells[k].color
        /\ CommitStep =>
              LET rot == Value(hexMap.rotation)
                  sel == { rot[i] : i \in 1..3 }
              IN  /\ \A k \in DOMAIN hexMap.cells \ sel :
                        hexMap'.cells[k].color = hexMap.cells[k].color
                  /\ \A c \in AllColors :
                        ColorCount(hexMap'.cells, sel, c) =
                            ColorCount(hexMap.cells, sel, c) ]_vars

\* a commit has changed the colour of a selected slot
C3_Witness ==
    /\ hist.phase = "committed"
    /\ Idle
    /\ \E i \in 1..3 : ColorAt(hist.hexes[i]) # hist.snap[i]

\* C4: while a descriptor is present one of the three cells it names has a
\* target, and while none is present no cell of the grid has a target.
C4_DescriptorIffTarget ==
    /\ Rotating =>
          \E i \in 1..3 :
              HasValue(hexMap.cells[Value(hexMap.rotation)[i]].rotatingTo)
    /\ Idle =>
          \A k \in Keys : ~HasValue(hexMap.cells[k].rotatingTo)

\* the grid is Idle again after a rotation has committed
C4_Witness ==
    /\ Idle
    /\ hist.phase = "committed"
    /\ lastOp = "stepRotation"

\* C7: a stepRotation call on an Idle grid changes nothing of the grid:
\* no cell, no key, no descriptor.
C7_IdleStepNoOp ==
    [][ (lastOp' = "stepRotation" /\ Idle) =>
            (hexMap' = hexMap /\ fault' = fault /\ hist' = hist) ]_vars

\* stepRotation has been called on a grid that never rotated
C7_Witness ==
    /\ lastOp = "stepRotation"
    /\ hist.phase = "none"
    /\ Idle

\* the three cells of the descriptor keep their targets and do not lose
\* progress in the step
RotationKept ==
    /\ hexMap'.rotation = hexMap.rotation
    /\ \A i \in 1..3 :
          LET h == Value(hexMap.rotation)[i]
          IN  /\ hexMap'.cells[h].rotatingTo = hexMap.cells[h].rotatingTo
              /\ hexMap'.cells[h].rotationProgress >=
                     hexMap.cells[h].rotationProgress

\* C5: the frame loop calls startRotation only on an Idle grid, so that a
\* frame taken while Rotating leaves the descriptor and the targets of its
\* cells as they are and their progress no lower, until the commit.
C5_OneRotationAtATime ==
    [][ /\ lastOp' = "startRotation" => ~hasRotation(hexMap)
        /\ (hasRotation(hexMap) /\ hasRotation(hexMap')) => RotationKept ]_vars

\* frames have been taken while a rotation was in flight
C5_Witness ==
    /\ Rotating
    /\ ~fault
    /\ lastOp = "frame"
    /\ \E i \in 1..3 :
          hexMap.cells[Value(hexMap.rotation)[i]].rotationProgress > 0

\* C6, as the specification states it: with frame times that are >= 0 a
\* rotation in flight is eventually committed.
C6_AsStated == (Rotating /\ ~fault) ~> Idle

\* each colour of the three slots has moved to the slot its cell was
\* rotating to
ColorsCycled ==
    \A i \in 1..3 :
        LET h == Value(hexMap.rotation)[i]
        IN  hexMap'.cells[Value(hexMap.cells[h].rotatingTo)].color =
                hexMap.cells[h].color

\* C6, amended: a frame taken while Rotating either keeps the rotation or
\* commits it, whatever the keys, and when frames in which time has passed
\* keep coming a rotation in flight is eventually committed.
C6_Completes ==
    /\ [][ (Rotating /\ ~fault) =>
              IF hasRotation(hexMap')
              THEN RotationKept
              ELSE ColorsCycled /\ ~fault' ]_vars
    /\ ([]<>timePassed) => ((Rotating /\ ~fault) ~> Idle)

\* the frame loop has committed a rotation in a later frame than the one
\* that started it
C6_Witness ==
    /\ Idle
    /\ ~fault
    /\ completed >= 1
    /\ lastOp = "frame"
    /\ timePassed

\* C8: moveDown straight after moveUp, and moveUp straight after moveDown,
\* puts the three hexes back where they were.
C8_UpDownRoundTrip ==
    [][ /\ (lastOp = "moveUp" /\ lastOp' = "moveDown") => cursor' = prevCursor
        /\ (lastOp = "moveDown" /\ lastOp' = "moveUp") => cursor' = prevCursor
      ]_vars

\* moveUp then moveDown has run from a top hex of negative odd r
C8_Witness ==
    /\ prevOp = "moveUp"
    /\ lastOp = "moveDown"
    /\ cursor[1].r < 0
    /\ CppMod(cursor[1].r, 2) # 0

\* C9: the cursor is the triangle of its top hex: the top, its NorthWest
\* and its NorthEast neighbour, pairwise distinct and at distance 1.
C9_RigidTriangle ==
    /\ cursor = << cursor[1],
                   hexNeighbour(cursor[1], NorthWest),
                   hexNeighbour(cursor[1], NorthEast) >>
    /\ \A i \in 1..3 : cursor[i].q + cursor[i].r + cursor[i].s = 0
    /\ \A i, j \in 1..3 :
          i # j => (~HexEq(cursor[i], cursor[j])
                    /\ hexDistance(cursor[i], cursor[j]) = 1)

\* the cursor has moved sideways and then vertically
C9_Witness ==
    /\ prevOp \in { "moveLeft", "moveRight" }
    /\ lastOp \in { "moveUp", "moveDown" }
    /\ cursor[1] # StartTop

\* one of the cursor's hexes is no key of the grid
CursorOffGrid == \E i \in 1..3 : cursor[i] \notin Keys

\* C10: when the frame loop calls startRotation with the cursor off the
\* grid the call faults: no cell is added or changed, and nothing runs
\* after the fault; faults arise in no other way.
C10_AbsentIsFatal ==
    [][ /\ ~fault
        /\ (lastOp' = "startRotation" /\ CursorOffGrid) =>
              (fault' /\ hexMap'.cells = hexMap.cells /\ cursor' = cursor)
        /\ fault' => (lastOp' = "startRotation" /\ CursorOffGrid) ]_vars

\* the cursor has been moved off the grid and the rotation triggered
C10_Witness ==
    /\ fault
    /\ lastOp = "startRotation"
    /\ CursorOffGrid
    /\ cursor[1] # StartTop
    /\ \A k \in Keys : ~HasValue(hexMap.cells[k].rotatingTo)

\* C11: a hexNeighbour call on the hex the last hexNeighbour call returned,
\* in the direction three places further round (East/West,
\* SouthEast/NorthWest, SouthWest/NorthEast), returns the hex that call
\* started from.
C11_NeighbourInverse ==
    [][ ( /\ call.fn = "hexNeighbour"
          /\ call'.fn = "hexNeighbour"
          /\ call'.args[1] = call.result
          /\ call'.args[2] = (call.args[2] + 3) % 6 ) =>
            (call'.result = call.args[1] /\ HexEq(call'.result, call.args[1]))
      ]_vars

\* hexNeighbour has been called on a hex an earlier call returned, and has
\* come back into the range from outside it
C11_Witness ==
    /\ call.fn = "hexNeighbour"
    /\ call.args[1] \notin HexesWithin(HexRange)
    /\ call.result \in HexesWithin(HexRange)
    /\ call.result.r < 0

\* C12: hexDistance(a, b) is 1 exactly when b == hexNeighbour(a, d) for one
\* of the six directions d.
C12_DistanceOneIffNeighbour ==
    call.fn = "hexDistance" =>
        LET a == call.args[1]
            b == call.args[2]
        IN  (call.result = 1) <=>
                (\E d \in Directions : HexEq(b, hexNeighbour(a, d)))

\* hexDistance has returned 1 for a hex of a negative row
C12_Witness ==
    /\ call.fn = "hexDistance"
    /\ call.result = 1
    /\ call.args[1].r < 0
    /\ call.args[2].q > 0

\* the valid coordinates at hex distance at most n from the origin
ValidWithin(n) ==
    { h \in HexesWithin(n + 1) : hexDistance(h, Origin) <= n }

\* C13: the key set of generateHexMap(N) is the set of the valid
\* coordinates at hex distance at most N from the origin, which are
\* 3*N*N + 3*N + 1.
C13_GeneratedDisc ==
    call.fn = "generateHexMap" =>
        LET N    == call.args[1]
            keys == DOMAIN call.result.cells
        IN  /\ keys = ValidWithin(N)
            /\ Cardinality(keys) = 3 * N * N + 3 * N + 1
            /\ ~HasValue(call.result.rotation)

\* generateHexMap(2) has returned a grid of 19 cells
C13_Witness ==
    /\ call.fn = "generateHexMap"
    /\ call.args[1] = 2
    /\ Cardinality(DOMAIN call.result.cells) = 19

\* C14: at the commit of a rotation over three distinct slots the targets
\* are still the ones startRotation set, each slot x is the target of
\* exactly one slot y, and x ends up with the colour y held before the
\* commit.
C14_SlotTakesIncoming ==
    [][ (CommitStep /\ Distinct3(Value(hexMap.rotation))) =>
            LET rot == Value(hexMap.rotation)
                sel == { rot[i] : i \in 1..3 }
                into(x) == { y \in sel : hexMap.cells[y].rotatingTo = Some(x) }
            IN  /\ rot = hist.hexes
                /\ hexMap.cells[rot[2]].rotatingTo = Some(rot[1])
                /\ hexMap.cells[rot[3]].rotatingTo = Some(rot[2])
                /\ hexMap.cells[rot[1]].rotatingTo = Some(rot[3])
                /\ \A x \in sel :
                      /\ Cardinality(into(x)) = 1
                      /\ \A y \in into(x) :
                            /\ hexMap'.cells[x].color = hexMap.cells[y].color
                            /\ hexMap.cells[y].color = hist.snap[CHOOSE i \in 1..3 : rot[i] = y]
      ]_vars

\* a commit has brought the colour of the second slot to the first, and
\* the two colours differ
C14_Witness ==
    /\ Idle
    /\ hist.phase = "committed"
    /\ Distinct3(hist.hexes)
    /\ hist.snap[1] # hist.snap[2]
    /\ ColorAt(hist.hexes[1]) = hist.snap[2]
    /\ lastOp = "stepRotation"

\* C15: startRotation([h0,h1,h2]) on an Idle grid, for three distinct
\* coordinates present in it, records the descriptor [h0,h1,h2], points
\* cell(h1) at h0, cell(h2) at h1 and cell(h0) at h2, sets the progress of
\* the three cells to 0, changes no colour, no other cell and no key, and
\* leaves the grid Rotating.
C15_StartRotationEffect ==
    [][ (lastOp' = "startRotation" /\ Idle /\ hist' # hist
            /\ Distinct3(hist'.hexes)) =>
            LET h0  == hist'.hexes[1]
                h1  == hist'.hexes[2]
                h2  == hist'.hexes[3]
                sel == { h0, h1, h2 }
            IN  /\ ~fault'
                /\ hexMap'.rotation = Some(<< h0, h1, h2 >>)
                /\ hasRotation(hexMap')
                /\ hexMap'.cells[h1].rotatingTo = Some(h0)
                /\ hexMap'.cells[h2].rotatingTo = Some(h1)
                /\ hexMap'.cells[h0].rotatingTo = Some(h2)
                /\ \A h \in sel : hexMap'.cells[h].rotationProgress = 0
                /\ DOMAIN hexMap'.cells = DOMAIN hexMap.cells
                /\ \A k \in DOMAIN hexMap.cells :
                      /\ hexMap'.cells[k].color = hexMap.cells[k].color
                      /\ k \notin sel => hexMap'.cells[k] = hexMap.cells[k]
      ]_vars

\* startRotation has just run on three distinct cells of more than one
\* colour whose progress was not 0 before, as it still is not in the cells
\* left alone
C15_Witness ==
    /\ lastOp = "startRotation"
    /\ Rotating
    /\ Distinct3(Value(hexMap.rotation))
    /\ \A i \in 1..3 :
          /\ hexMap.cells[Value(hexMap.rotation)[i]].rotationProgress = 0
          /\ HasValue(hexMap.cells[Value(hexMap.rotation)[i]].rotatingTo)
    /\ uninit # 0
    /\ \A k \in Keys \ { Value(hexMap.rotation)[i] : i \in 1..3 } :
          hexMap.cells[k].rotationProgress = uninit
    /\ Cardinality({ hist.snap[i] : i \in 1..3 }) > 1

\* the column of a hex in the offset layout: q + floor(r / 2)
OffsetCol(h) == h.q + (h.r \div 2)

\* C16: moveUp lowers the r of the top hex by exactly 1 and moveDown raises
\* it by exactly 1, each leaving its offset column q + floor(r/2) as it
\* was, so under moveUp and moveDown alone the offset column of the top hex
\* stays that of the start.
C16_VerticalMoves ==
    /\ [](OffsetCol(cursor[1]) = OffsetCol(StartTop))
    /\ [][ /\ lastOp' = "moveUp" =>
                /\ cursor'[1].r = cursor[1].r - 1
                /\ OffsetCol(cursor'[1]) = OffsetCol(cursor[1])
           /\ lastOp' = "moveDown" =>
                /\ cursor'[1].r = cursor[1].r + 1
                /\ OffsetCol(cursor'[1]) = OffsetCol(cursor[1])
         ]_vars

\* moveUp has just taken the cursor from an even row to a negative odd one
C16_Witness ==
    /\ lastOp = "moveUp"
    /\ cursor[1].r < 0
    /\ CppMod(cursor[1].r, 2) = -1
    /\ prevCursor[1].r = cursor[1].r + 1
    /\ prevOp = "moveUp"

\* C17: in the frame loop a frame that moves the cursor changes the grid
\* only by its stepRotation call; a frame that starts a rotation leaves the
\* cursor where it was and records the cursor's coordinates as descriptor;
\* the descriptor stays as recorded while the rotation is in flight,
\* wherever the cursor goes; and the commit changes the cells of the
\* descriptor and no other.
C17_CursorGridDecoupled ==
    [][ /\ cursor' # cursor =>
              \E dt \in FrameDts :
                  hexMap' = stepRotation(hexMap, dt, seed, uninit).hm
        /\ lastOp' = "startRotation" =>
              /\ cursor' = cursor
              /\ hasRotation(hexMap') => hexMap'.rotation = Some(cursor)
        /\ (Rotating /\ hasRotation(hexMap')) =>
              hexMap'.rotation = hexMap.rotation
        /\ CommitStep =>
              LET rot == Value(hexMap.rotation)
              IN  /\ \A k \in Keys \ { rot[i] : i \in 1..3 } :
                        hexMap'.cells[k] = hexMap.cells[k]
                  /\ hexMap'.cells[rot[3]].color = hexMap.cells[rot[1]].color
                  /\ hexMap'.cells[rot[1]].color = hexMap.cells[rot[2]].color
                  /\ hexMap'.cells[rot[2]].color = hexMap.cells[rot[3]].color
      ]_vars

\* a rotation has committed, changing the colour of a cell the cursor has
\* left in the meantime and of none under the cursor's new place outside
\* the old one
C17_Witness ==
    /\ Idle
    /\ ~fault
    /\ completed >= 1
    /\ cursor # Cursor(StartTop)
    /\ \E k \in Keys \ { cursor[i] : i \in 1..3 } :
          ColorAt(k) # NewCell(seed, uninit, k).color
    /\ \A k \in Keys \ { Cursor(StartTop)[i] : i \in 1..3 } :
          ColorAt(k) = NewCell(seed, uninit, k).color

\* C18: while a rotation over three distinct coordinates is in flight its
\* three cells have the same rotationProgress, whatever the dt of the calls
\* so far, and a call that commits finds all three below 1.0 together.
C18_Lockstep ==
    /\ [](( Rotating /\ ~fault /\ Distinct3(Value(hexMap.rotation)) ) =>
             LET rot == Value(hexMap.rotation)
             IN  \A i, j \in 1..3 :
                     hexMap.cells[rot[i]].rotationProgress =
                         hexMap.cells[rot[j]].rotationProgress)
    /\ [][ (CommitStep /\ Distinct3(Value(hexMap.rotation))) =>
              LET rot == Value(hexMap.rotation)
              IN  \E dt \in Dts :
                     \A i \in 1..3 :
                        /\ hexMap.cells[rot[i]].rotationProgress < One
                        /\ CellStepRotation(hexMap.cells[rot[i]], dt).rotationProgress
                               = One
        ]_vars

\* a rotation over distinct coordinates is part-way after calls of
\* different dt
C18_Witness ==
    /\ Rotating
    /\ ~fault
    /\ Distinct3(Value(hexMap.rotation))
    /\ hist.uniform = -1
    /\ \A i \in 1..3 :
          /\ hexMap.cells[Value(hexMap.rotation)[i]].rotationProgress > 0
          /\ hexMap.cells[Value(hexMap.rotation)[i]].rotationProgress < One

\* C19: under startRotation on present coordinates and stepRotation the
\* keys of the grid stay those generateHexMap inserted; every rotatingTo
\* target is a coordinate of the descriptor and a key; and none of the
\* three operator[] lookups of a commit inserts a cell.
C19_KeySetFixed ==
    /\ [](/\ Keys = generatedKeys(MapRadius)
          /\ \A k \in Keys :
                HasValue(hexMap.cells[k].rotatingTo) =>
                    /\ Rotating
                    /\ Value(hexMap.cells[k].rotatingTo) \in
                           { Value(hexMap.rotation)[i] : i \in 1..3 }
                    /\ Value(hexMap.cells[k].rotatingTo) \in Keys)
    /\ [][ CommitStep =>
              LET rot == Value(hexMap.rotation)
                  s1  == SwapWithTarget(hexMap.cells, rot[1], seed, uninit)
                  s2  == SwapWithTarget(s1, rot[2], seed, uninit)
                  s3  == SwapWithTarget(s2, rot[3], seed, uninit)
              IN  /\ DOMAIN s1 = Keys
                  /\ DOMAIN s2 = Keys
                  /\ DOMAIN s3 = Keys
                  /\ DOMAIN hexMap'.cells = Keys
        ]_vars

\* a second rotation is in flight after a first has committed, on the keys
\* the grid was generated with
C19_Witness ==
    /\ Rotating
    /\ ~fault
    /\ Cardinality(Keys) = 3 * MapRadius * MapRadius + 3 * MapRadius + 1
    /\ \E k \in Keys : hexMap.cells[k].rotationProgress = -One
    /\ \E k \in Keys : HasValue(hexMap.cells[k].rotatingTo)

\* C20: a cell whose rotatingTo is set has its rotationProgress in [0,1],
\* so a negative progress is found only where rotatingTo is none; the
\* progress is 0 when startRotation has set the target and no stepRotation
\* call (of dt >= 0) lowers it while the target stays set.
C20_ProgressRange ==
    /\ [](\A k \in Keys :
             /\ HasValue(hexMap.cells[k].rotatingTo) =>
                   /\ hexMap.cells[k].rotationProgress >= 0
                   /\ hexMap.cells[k].rotationProgress <= One
             /\ hexMap.cells[k].rotationProgress < 0 =>
                   ~HasValue(hexMap.cells[k].rotatingTo))
    /\ [][ \A k \in Keys :
              HasValue(hexMap'.cells[k].rotatingTo) =>
                  IF HasValue(hexMap.cells[k].rotatingTo)
                  THEN hexMap'.cells[k].rotationProgress >=
                           hexMap.cells[k].rotationProgress
                  ELSE hexMap'.cells[k].rotationProgress = 0
        ]_vars

\* a cell of the rotation in flight has been clamped at 1.0 while another
\* cell, reset by an earlier commit, holds the negative sentinel
C20_Witness ==
    /\ Rotating
    /\ ~fault
    /\ lastOp = "stepRotation"
    /\ \E k \in Keys :
          /\ HasValue(hexMap.cells[k].rotatingTo)
          /\ hexMap.cells[k].rotationProgress = One
    /\ \E k \in Keys :
          /\ ~HasValue(hexMap.cells[k].rotatingTo)
          /\ hexMap.cells[k].rotationProgress = -One

====
